---------------------------- MODULE Spec2Model ----------------------------
(***************************************************************************)
(* Model of src/app6.py, the Poverty & Millionaire analytics dashboard.    *)
(*                                                                         *)
(* The program is a Streamlit script: every user interaction (upload a     *)
(* file, remove it, change a column selectbox, change the multiselect)     *)
(* reruns the script from its first line.  Widget values (the uploaded     *)
(* file, the four column choices, the selected states) are the only things *)
(* that survive from one run to the next; every table is rebuilt.  One     *)
(* action of the model is one interaction followed by the whole rerun.     *)
(*                                                                         *)
(* Values.  A cell of a table is a record [t, v]: a number ("num"), a text *)
(* ("str") or a missing value ("na", pandas' NaN).  A derived ratio is a   *)
(* record [n, d]: the reduced fraction n/d, with 1/0 for +inf and 0/0 for  *)
(* NaN, which is what IEEE division of two non-negative numbers gives.     *)
(* The numbers of the model are small naturals, on which float division is *)
(* exact enough that two quotients are equal floats iff they are equal     *)
(* fractions.                                                              *)
(***************************************************************************)
EXTENDS Integers, Sequences, FiniteSets, TLC

VARIABLES
    uploaded_file,    \* the file held by st.file_uploader, or NoFile
    mapping,          \* state_col, population_col, poverty_col, millionaire_col
    selected_states,  \* value of the st.multiselect of tab 1 (a set of cells)
    df,               \* the loaded table, numeric columns overwritten in place
    df_clean,         \* the Cleaned Table with its three added columns
    df_map,           \* the Mapped-Geo Table
    all_states,       \* options of the multiselect
    grouped,          \* per-state sums of tab 1
    dens_sorted,      \* df_map sorted by Millionaire_Density, tab 2
    rate_df,          \* the poverty-rate ranking of tab 3
    tab1, tab2, tab3, \* what each tab rendered: "none", "warning" or "chart"
    STATE_ABBREV      \* the module-level dict of the script

vars == <<uploaded_file, mapping, selected_states, df, df_clean, df_map,
          all_states, grouped, dens_sorted, rate_df, tab1, tab2, tab3,
          STATE_ABBREV>>

---------------------------------------------------------------------------
(* Cells and ratios *)

NA == [t |-> "na", v |-> 0]

Num(n) == [t |-> "num", v |-> n]

Str(s) == [t |-> "str", v |-> s]

IsNA(c) == c.t = "na"

RECURSIVE GCD(_, _)
GCD(a, b) == IF b = 0 THEN a ELSE GCD(b, a % b)

NaN == [n |-> 0, d |-> 0]

Inf == [n |-> 1, d |-> 0]

\* a / b on two non-negative floats: x/0 is inf, 0/0 is NaN, no exception
Div(a, b) ==
    IF b = 0
    THEN (IF a = 0 THEN NaN ELSE Inf)
    ELSE LET g == GCD(a, b) IN [n |-> a \div g, d |-> b \div g]

IsNaN(r) == r.n = 0 /\ r.d = 0

\* x < y on two ratios that are not NaN
RatioLess(x, y) == x.n * y.d < y.n * x.d

Range(s) == {s[i] : i \in DOMAIN s}

---------------------------------------------------------------------------
(* Text: the strings of the model, in Python's string order, and the       *)
(* strings that float() parses.                                            *)

TextOrder == <<"2", "4", "A", "Atlantis", "B", "C", "D", "Ohio", "Texas", "texas", "x">>

TextRank(s) == CHOOSE i \in DOMAIN TextOrder : TextOrder[i] = s

NumeralValue == [s \in {"2", "4"} |-> IF s = "2" THEN 2 ELSE 4]

\* a conversion that also rescales the numbers it reads (a fraction to a
\* percentage): applied to its own output it rescales again
to_numeric_percent(c) ==
    IF c.t = "num" THEN [t |-> "num", v |-> c.v * 100]
    ELSE IF c.t = "str" /\ c.v \in DOMAIN NumeralValue
         THEN [t |-> "num", v |-> NumeralValue[c.v] * 100]
    ELSE NA

\* pd.to_numeric(..., errors="coerce") on one cell
to_numeric(c) ==
    IF c.t = "num" THEN c
    ELSE IF c.t = "str" /\ c.v \in DOMAIN NumeralValue THEN Num(NumeralValue[c.v])
    ELSE NA

\* the order Python's sorted() and pandas' group keys use on state values
KeyLeq(a, b) ==
    IF a.t = "str" /\ b.t = "str" THEN TextRank(a.v) <= TextRank(b.v)
    ELSE IF a.t = "num" /\ b.t = "num" THEN a.v <= b.v
    ELSE a.t = "num"

RECURSIVE sorted(_)
sorted(S) ==
    IF S = {} THEN <<>>
    ELSE LET m == CHOOSE x \in S : \A y \in S : KeyLeq(x, y)
         IN  <<m>> \o sorted(S \ {m})

---------------------------------------------------------------------------
(* The geo lookup table *)

StateAbbrevItems ==
    << <<"Alabama", "AL">>, <<"Alaska", "AK">>, <<"Arizona", "AZ">>, <<"Arkansas", "AR">>,
       <<"California", "CA">>, <<"Colorado", "CO">>, <<"Connecticut", "CT">>, <<"Delaware", "DE">>,
       <<"Florida", "FL">>, <<"Georgia", "GA">>, <<"Hawaii", "HI">>, <<"Idaho", "ID">>,
       <<"Illinois", "IL">>, <<"Indiana", "IN">>, <<"Iowa", "IA">>, <<"Kansas", "KS">>,
       <<"Kentucky", "KY">>, <<"Louisiana", "LA">>, <<"Maine", "ME">>, <<"Maryland", "MD">>,
       <<"Massachusetts", "MA">>, <<"Michigan", "MI">>, <<"Minnesota", "MN">>, <<"Mississippi", "MS">>,
       <<"Missouri", "MO">>, <<"Montana", "MT">>, <<"Nebraska", "NE">>, <<"Nevada", "NV">>,
       <<"New Hampshire", "NH">>, <<"New Jersey", "NJ">>, <<"New Mexico", "NM">>, <<"New York", "NY">>,
       <<"North Carolina", "NC">>, <<"North Dakota", "ND">>, <<"Ohio", "OH">>, <<"Oklahoma", "OK">>,
       <<"Oregon", "OR">>, <<"Pennsylvania", "PA">>, <<"Rhode Island", "RI">>,
       <<"South Carolina", "SC">>, <<"South Dakota", "SD">>, <<"Tennessee", "TN">>, <<"Texas", "TX">>,
       <<"Utah", "UT">>, <<"Vermont", "VT">>, <<"Virginia", "VA">>, <<"Washington", "WA">>,
       <<"West Virginia", "WV">>, <<"Wisconsin", "WI">>, <<"Wyoming", "WY">>,
       <<"District of Columbia", "DC">>, <<"D.C.", "DC">> >>

\* the literal without its last entry, the alias "D.C."
StateAbbrevNoAlias ==
    [k \in {StateAbbrevItems[i][1] : i \in DOMAIN StateAbbrevItems} \ {"D.C."} |->
        LET i == CHOOSE j \in DOMAIN StateAbbrevItems : StateAbbrevItems[j][1] = k
        IN  StateAbbrevItems[i][2]]

\* the dict the literal of lines 98-113 builds
StateAbbrevLiteral ==
    [k \in {StateAbbrevItems[i][1] : i \in DOMAIN StateAbbrevItems} |->
        LET i == CHOOSE j \in DOMAIN StateAbbrevItems : StateAbbrevItems[j][1] = k
        IN  StateAbbrevItems[i][2]]

NoDict == [k \in {} |-> ""]


---------------------------------------------------------------------------
(* The Field Mapper *)

RECURSIVE index(_, _)
\* cols.index(name), counting from 1: the first position that holds name
index(cols, name) == IF Head(cols) = name THEN 1 ELSE 1 + index(Tail(cols), name)

\* a fallback to the last column instead of the first
default_index_last(name, cols) ==
    IF name \in Range(cols) THEN index(cols, name) ELSE Len(cols)

\* default_index of the script, counting from 1 (Python's 0 is position 1)
default_index(name, cols) == IF name \in Range(cols) THEN index(cols, name) ELSE 1

\* the four selectboxes as first drawn for a table with columns cols
DefaultMapping(cols) ==
    [state_col       |-> cols[default_index("State", cols)],
     population_col  |-> cols[default_index("State Population", cols)],
     poverty_col     |-> cols[default_index("Number in Poverty", cols)],
     millionaire_col |-> cols[default_index("Number of Millionaires", cols)]]

Roles == {"state_col", "population_col", "poverty_col", "millionaire_col"}

NoMapping == [r \in Roles |-> ""]

\* the number of roles whose selectbox is off its pre-selected column
Remapped(m, cols) == Cardinality({r \in Roles : m[r] # DefaultMapping(cols)[r]})

---------------------------------------------------------------------------
(* Cleaning and derivation, lines 85-93 *)

\* df[col] of one row
Cell(row, cols, col) == row[index(cols, col)]

\* the loop of lines 85-86: the three numeric columns are overwritten
Coerce(rows, cols, m) ==
    [i \in DOMAIN rows |->
        [j \in DOMAIN cols |->
            IF cols[j] \in {m.population_col, m.poverty_col, m.millionaire_col}
            THEN to_numeric(rows[i][j])
            ELSE rows[i][j]]]

\* dropna(how="all"): a row goes only when every cell of the subset is missing
dropna_all(rows, cols, subset) ==
    LET Keep(row) == \E c \in subset : ~IsNA(Cell(row, cols, c))
    IN  SelectSeq(rows, Keep)

\* DataFrame.dropna(subset=...) on the rows of a table
dropna(rows, cols, subset) ==
    LET Keep(row) == \A c \in subset : ~IsNA(Cell(row, cols, c))
    IN  SelectSeq(rows, Keep)

\* Series.map(dict) on one cell: the value of the key, NaN for anything else
MapCell(c, dict) ==
    IF c.t = "str" /\ c.v \in DOMAIN dict THEN Str(dict[c.v]) ELSE NA

\* one row of df_clean: lines 92, 93 and 115
CleanRow(row, cols, m, dict) ==
    [cells               |-> row,
     Millionaire_Density |-> Div(Cell(row, cols, m.millionaire_col).v,
                                 Cell(row, cols, m.population_col).v),
     Poverty_Rate        |-> Div(Cell(row, cols, m.poverty_col).v,
                                 Cell(row, cols, m.population_col).v),
     state_code          |-> MapCell(Cell(row, cols, m.state_col), dict)]

\* lines 89-93 and 115 on the coerced table
CleanedTable(rows, cols, m, dict) ==
    LET kept == dropna(rows, cols, {m.state_col, m.population_col,
                                    m.poverty_col, m.millionaire_col})
    IN  [i \in DOMAIN kept |-> CleanRow(kept[i], cols, m, dict)]

\* the table kept whole, rows without a code included
MappedGeoAll(clean) == clean

\* line 116
MappedGeo(clean) ==
    LET Keep(r) == ~IsNA(r.state_code)
    IN  SelectSeq(clean, Keep)

StateOf(r, cols, m) == Cell(r.cells, cols, m.state_col)

\* line 132
AllStates(clean, cols, m) == sorted({StateOf(clean[i], cols, m) : i \in DOMAIN clean})

\* line 136: the multiselect as first drawn
DefaultSelection(states) ==
    IF Len(states) >= 5 THEN {states[i] : i \in 1..5} ELSE Range(states)

---------------------------------------------------------------------------
(* Aggregation and ranking *)

RECURSIVE SumOver(_, _, _)
\* the sum of column col over the rows of clean
SumOver(clean, cols, col) ==
    IF clean = <<>> THEN 0
    ELSE Cell(Head(clean).cells, cols, col).v + SumOver(Tail(clean), cols, col)

\* the selected rows as they are, one output row per input row, no groupby
UngroupedSum(clean, cols, m, sel) ==
    LET InSel(r)  == Cell(r.cells, cols, m.state_col) \in sel
        subset    == SelectSeq(clean, InSel)
    IN  [i \in DOMAIN subset |->
            [state        |-> Cell(subset[i].cells, cols, m.state_col),
             poverty      |-> Cell(subset[i].cells, cols, m.poverty_col).v,
             millionaires |-> Cell(subset[i].cells, cols, m.millionaire_col).v]]

\* lines 145-148: isin, then groupby(state_col)[[poverty_col, millionaire_col]].sum()
GroupBySum(clean, cols, m, sel) ==
    LET InSel(r)  == StateOf(r, cols, m) \in sel
        subset    == SelectSeq(clean, InSel)
        keys      == sorted({StateOf(subset[i], cols, m) : i \in DOMAIN subset})
        Group(k)  == LET Is(r) == StateOf(r, cols, m) = k IN SelectSeq(subset, Is)
    IN  [i \in DOMAIN keys |->
            [state        |-> keys[i],
             poverty      |-> SumOver(Group(keys[i]), cols, m.poverty_col),
             millionaires |-> SumOver(Group(keys[i]), cols, m.millionaire_col)]]

\* no deduplication at all
keep_duplicates(s) == s

RECURSIVE drop_duplicates(_)
\* DataFrame.drop_duplicates(): the first of equal rows stays, order is kept
drop_duplicates(s) ==
    IF s = <<>> THEN <<>>
    ELSE LET rest == drop_duplicates(SubSeq(s, 1, Len(s) - 1))
             last == s[Len(s)]
         IN  IF last \in Range(rest) THEN rest ELSE Append(rest, last)

\* line 257: the two columns, without NaN rates, without repeated rows
RatePairs(clean, cols, m) ==
    LET pairs    == [i \in DOMAIN clean |->
                        [state        |-> StateOf(clean[i], cols, m),
                         Poverty_Rate |-> clean[i].Poverty_Rate]]
        Keep(p)  == ~IsNaN(p.Poverty_Rate)
    IN  drop_duplicates(SelectSeq(pairs, Keep))

\* x goes before y in sort_values(ascending=False): larger first, NaN last
Before(x, y) == (~IsNaN(x) /\ IsNaN(y)) \/ (~IsNaN(x) /\ ~IsNaN(y) /\ RatioLess(y, x))

\* the same rows, smallest first: what ascending=True would give
sort_values_ascending(s, by) ==
    LET n == Len(s)
        ok == {p \in Permutations(1..n) :
                  \A i \in 1..n, j \in 1..n :
                      i < j => ~Before(s[p[i]][by], s[p[j]][by])}
    IN  {[i \in 1..n |-> s[p[i]]] : p \in ok}

\* DataFrame.sort_values(by, ascending=False) with the default kind,
\* "quicksort", which is not a stable sort: every arrangement of s in which
\* no row stands after a row it must go before is a possible result.
sort_values(s, by) ==
    LET n == Len(s)
        ok == {p \in Permutations(1..n) :
                  \A i \in 1..n, j \in 1..n :
                      i < j => ~Before(s[p[j]][by], s[p[i]][by])}
    IN  {[i \in 1..n |-> s[p[i]]] : p \in ok}

\* DataFrame.head(n) and DataFrame.tail(n)
head(s, n) == SubSeq(s, 1, IF Len(s) < n THEN Len(s) ELSE n)

tail(s, n) == SubSeq(s, IF Len(s) > n THEN Len(s) - n + 1 ELSE 1, Len(s))

---------------------------------------------------------------------------
(* One run of the script *)

NoFile == [cols |-> <<>>, rows |-> <<>>]

\* lines 31-33: no file, st.info and st.stop(); nothing below is executed
Stopped ==
    /\ mapping' = NoMapping
    /\ selected_states' = {}
    /\ df' = <<>>
    /\ df_clean' = <<>>
    /\ df_map' = <<>>
    /\ all_states' = <<>>
    /\ grouped' = <<>>
    /\ dens_sorted' = <<>>
    /\ rate_df' = <<>>
    /\ tab1' = "none" /\ tab2' = "none" /\ tab3' = "none"
    /\ STATE_ABBREV' = NoDict

\* lines 35-297 for the file, the column choices m and the multiselect value.
\* UserSel is the value the widget holds from earlier runs; the widget keeps it
\* only while its options are the ones it was drawn with, else it is redrawn
\* with its default.
Script(file, m, UserSel, keep) ==
    \E dict \in {StateAbbrevLiteral} :
    \E coerced \in {Coerce(file.rows, file.cols, m)} :
    \E clean \in {CleanedTable(coerced, file.cols, m, dict)} :
    \E geo \in {MappedGeo(clean)} :
    \E states \in {AllStates(clean, file.cols, m)} :
    \E sel \in {IF keep /\ states = all_states THEN UserSel
                ELSE DefaultSelection(states)} :
        /\ mapping' = m
        /\ df' = coerced
        /\ df_clean' = clean
        /\ STATE_ABBREV' = dict
        /\ df_map' = geo
        /\ all_states' = states
        /\ selected_states' = sel
        /\ IF sel = {}
           THEN tab1' = "warning" /\ grouped' = <<>>
           ELSE tab1' = "chart" /\ grouped' = GroupBySum(clean, file.cols, m, sel)
        /\ IF geo = <<>>
           THEN tab2' = "warning" /\ dens_sorted' = <<>>
           ELSE tab2' = "chart" /\ dens_sorted' \in sort_values(geo, "Millionaire_Density")
        /\ IF clean = <<>>
           THEN tab3' = "warning" /\ rate_df' = <<>>
           ELSE tab3' = "chart"
                /\ rate_df' \in sort_values(RatePairs(clean, file.cols, m), "Poverty_Rate")

---------------------------------------------------------------------------
(* Inputs *)

MaxRows == 2

MaxRemapped == 1

DefaultHeader == <<"State", "State Population", "Number in Poverty", "Number of Millionaires">>

Headers == {DefaultHeader,
            <<"Region", "Residents">>,
            <<"Residents", "State">>}

\* rows as (state, population, poverty, millionaires)
RowPool ==
    { <<Str("Texas"), Num(4), Num(1), Num(1)>>,
      <<Str("Texas"), Num(2), Num(1), Num(2)>>,
      <<Str("Ohio"), Num(2), Num(1), Num(0)>>,
      <<Str("texas"), Num(4), Num(3), Num(2)>>,
      <<Str("Atlantis"), Num(0), Num(0), Num(1)>>,
      <<Str("Ohio"), Num(0), Num(1), Num(1)>>,
      <<Str("Texas"), Str("x"), Num(1), Num(1)>>,
      <<Str("Ohio"), Str("2"), Num(1), Num(1)>>,
      <<Str("Texas"), Str("4"), Num(3), Num(2)>>,
      <<NA, Num(2), Num(1), Num(1)>>,
      <<Str("Texas"), Num(2), NA, Num(1)>> }

\* a parsed file keeps one type per column: numbers, or text, with gaps
WellTyped(rows) ==
    \A i \in DOMAIN rows, j \in DOMAIN rows :
        \A k \in DOMAIN rows[i] :
            IsNA(rows[i][k]) \/ IsNA(rows[j][k]) \/ rows[i][k].t = rows[j][k].t

RowSeqs == {rs \in UNION {[1..n -> RowPool] : n \in 0..MaxRows} : WellTyped(rs)}

\* pd.read_csv / pd.read_excel: the header and the rows under it
MakeFile(h, rs) ==
    [cols |-> h, rows |-> [i \in DOMAIN rs |-> SubSeq(rs[i], 1, Len(h))]]

Files == {MakeFile(h, rs) : h \in Headers, rs \in RowSeqs}

---------------------------------------------------------------------------
(* Interactions *)

Init ==
    /\ uploaded_file = NoFile
    /\ mapping = NoMapping
    /\ selected_states = {}
    /\ df = <<>>
    /\ df_clean = <<>>
    /\ df_map = <<>>
    /\ all_states = <<>>
    /\ grouped = <<>>
    /\ dens_sorted = <<>>
    /\ rate_df = <<>>
    /\ tab1 = "none" /\ tab2 = "none" /\ tab3 = "none"
    /\ STATE_ABBREV = NoDict

\* The user gives the uploader a file.  Replacing a file is the same as
\* removing it and uploading the new one: nothing of the old run is kept.
UploadFrom(pool) ==
    /\ uploaded_file = NoFile
    /\ \E f \in pool :
          /\ uploaded_file' = f
          /\ Script(f, DefaultMapping(f.cols), {}, FALSE)

Upload == UploadFrom(Files)

\* The user clears the uploader.
Remove ==
    /\ uploaded_file # NoFile
    /\ uploaded_file' = NoFile
    /\ Stopped

\* The user picks another column in one of the four selectboxes.
Remap ==
    /\ uploaded_file # NoFile
    /\ \E r \in Roles, c \in Range(uploaded_file.cols) :
          LET m == [mapping EXCEPT ![r] = c]
          IN  /\ m # mapping
              /\ Remapped(m, uploaded_file.cols) <= MaxRemapped
              /\ uploaded_file' = uploaded_file
              /\ Script(uploaded_file, m, selected_states, TRUE)

\* The user adds a state to the multiselect or takes one off.
Select ==
    /\ uploaded_file # NoFile
    /\ \E s \in Range(all_states) :
          LET sel == IF s \in selected_states
                     THEN selected_states \ {s}
                     ELSE selected_states \cup {s}
          IN  /\ uploaded_file' = uploaded_file
              /\ Script(uploaded_file, mapping, sel, TRUE)

Next == Upload \/ Remove \/ Remap \/ Select

Spec == Init /\ [][Next]_vars

---------------------------------------------------------------------------
(* The ranking example: states A, B, C, D with poverty rates 0.30, 0.10,   *)
(* 0.30, 0.05, uploaded in every order of its rows.                        *)

RankingRows ==
    { <<Str("A"), Num(20), Num(6), Num(1)>>,
      <<Str("B"), Num(20), Num(2), Num(2)>>,
      <<Str("C"), Num(20), Num(6), Num(3)>>,
      <<Str("D"), Num(20), Num(1), Num(4)>> }

RankingFiles ==
    {MakeFile(DefaultHeader, rs) :
        rs \in {q \in [1..Cardinality(RankingRows) -> RankingRows] :
                   Range(q) = RankingRows}}

UploadRanking == UploadFrom(RankingFiles)

NextRanking == UploadRanking \/ Remove \/ Remap \/ Select

SpecRanking == Init /\ [][NextRanking]_vars

---------------------------------------------------------------------------
(* What the narratives of tabs 2 and 3 read off the rankings *)

TopN == 3

\* lines 223-224, as (state, density) pairs
DensityPairs ==
    [i \in DOMAIN dens_sorted |->
        [state               |-> StateOf(dens_sorted[i], uploaded_file.cols, mapping),
         Millionaire_Density |-> dens_sorted[i].Millionaire_Density]]

top_states == head(DensityPairs, TopN)

bottom_states == tail(DensityPairs, TopN)

---------------------------------------------------------------------------
(* Properties *)

Loaded == uploaded_file # NoFile

Columns == uploaded_file.cols

RawRows == uploaded_file.rows

StateName(r) == StateOf(r, Columns, mapping)

RatePair(r) == [state |-> StateName(r), Poverty_Rate |-> r.Poverty_Rate]

DensityPair(r) == [state |-> StateName(r), Millionaire_Density |-> r.Millionaire_Density]

Population(r) == Cell(r.cells, Columns, mapping.population_col).v

NumericRoles == {mapping.population_col, mapping.poverty_col, mapping.millionaire_col}

\* a cell that holds a number, as a number or as text that reads as one
IsNumeric(c) == c.t = "num" \/ (c.t = "str" /\ c.v \in DOMAIN NumeralValue)

\* the raw row has a state name and three numeric values under the mapping
Usable(row) ==
    /\ ~IsNA(Cell(row, Columns, mapping.state_col))
    /\ \A c \in NumericRoles : IsNumeric(Cell(row, Columns, c))

UsableIndexes ==
    LET Ok(i) == Usable(RawRows[i])
    IN  SelectSeq([i \in DOMAIN RawRows |-> i], Ok)

RECURSIVE SumAt(_, _)
\* the sum of column col of df_clean over the set I of its row numbers
SumAt(I, col) ==
    IF I = {} THEN 0
    ELSE LET i == CHOOSE k \in I : TRUE
         IN  Cell(df_clean[i].cells, Columns, col).v + SumAt(I \ {i}, col)

RowsOfState(s) == {i \in DOMAIN df_clean : StateName(df_clean[i]) = s}

IsGeoKey(c) == c.t = "str" /\ c.v \in DOMAIN STATE_ABBREV

DefaultNames ==
    [state_col       |-> "State",
     population_col  |-> "State Population",
     poverty_col     |-> "Number in Poverty",
     millionaire_col |-> "Number of Millionaires"]

\* C1: every row of the Cleaned Table whose population is 0 is absent from
\* the poverty-rate ranking and from the top and bottom of the millionaire
\* density ranking.
C1_ZeroPopulationAbsent ==
    \A i \in DOMAIN df_clean :
        Population(df_clean[i]) = 0 =>
            /\ RatePair(df_clean[i]) \notin Range(rate_df)
            /\ DensityPair(df_clean[i]) \notin Range(top_states) \cup Range(bottom_states)

\* C2: once a file is loaded the script runs to its last tab, and the
\* Cleaned Table holds, in order, exactly the rows of the table whose state
\* cell is present and whose population, poverty and millionaire cells are
\* present and numeric.
C2_CleanedIffUsable ==
    Loaded =>
        /\ tab3 # "none"
        /\ Len(df_clean) = Len(UsableIndexes)
        /\ \A k \in DOMAIN df_clean : df_clean[k].cells = df[UsableIndexes[k]]

\* C2 witness: a loaded table with a row whose population is text that is no
\* number, dropped, beside a row that is kept.
C2_Witness ==
    /\ Loaded
    /\ mapping = DefaultMapping(DefaultHeader)
    /\ \E i \in DOMAIN RawRows :
          Cell(RawRows[i], Columns, mapping.population_col) = Str("x")
    /\ Len(df_clean) = 1
    /\ Len(RawRows) = 2

C4_RateThenNameOrder ==
    \A i \in DOMAIN rate_df, j \in DOMAIN rate_df :
        i < j =>
            \/ RatioLess(rate_df[j].Poverty_Rate, rate_df[i].Poverty_Rate)
            \/ /\ rate_df[i].Poverty_Rate = rate_df[j].Poverty_Rate
               /\ KeyLeq(rate_df[i].state, rate_df[j].state)

\* C4 amended: the ranking is in descending order of poverty rate (the order
\* of rows of equal rate is left to the sort).
C4_DescendingRate ==
    \A i \in DOMAIN rate_df, j \in DOMAIN rate_df :
        i < j => ~RatioLess(rate_df[i].Poverty_Rate, rate_df[j].Poverty_Rate)

\* C4 witness: the example under its default mapping, ranked A or C, then C
\* or A, then B, then D.
C4_Witness ==
    /\ Loaded
    /\ mapping = DefaultMapping(DefaultHeader)
    /\ Len(rate_df) = 4
    /\ {rate_df[1].state, rate_df[2].state} = {Str("A"), Str("C")}
    /\ rate_df[1].Poverty_Rate = Div(6, 20)
    /\ rate_df[2].Poverty_Rate = Div(6, 20)
    /\ rate_df[3] = [state |-> Str("B"), Poverty_Rate |-> Div(2, 20)]
    /\ rate_df[4] = [state |-> Str("D"), Poverty_Rate |-> Div(1, 20)]

\* C5: when the selection is not empty the comparison has exactly one row
\* for each selected state and none for any other, and the row's two values
\* are the sums of the poverty and millionaire columns over the Cleaned Table
\* rows of that state.
C5_OneSummedRowPerState ==
    tab1 = "chart" =>
        /\ {grouped[i].state : i \in DOMAIN grouped} = selected_states
        /\ \A i \in DOMAIN grouped, j \in DOMAIN grouped :
              grouped[i].state = grouped[j].state => i = j
        /\ \A i \in DOMAIN grouped :
              /\ RowsOfState(grouped[i].state) # {}
              /\ grouped[i].poverty =
                    SumAt(RowsOfState(grouped[i].state), mapping.poverty_col)
              /\ grouped[i].millionaires =
                    SumAt(RowsOfState(grouped[i].state), mapping.millionaire_col)

\* C5 witness: one selected state with two rows in the Cleaned Table, summed
\* into one row.
C5_Witness ==
    /\ tab1 = "chart"
    /\ mapping = DefaultMapping(DefaultHeader)
    /\ Len(grouped) = 1
    /\ Cardinality(RowsOfState(grouped[1].state)) = 2
    /\ grouped[1].poverty = 2
    /\ grouped[1].millionaires = 3

\* C6: a view with no usable rows shows a message and no chart: no selected
\* state, no aggregation and a warning in tab 1; an empty Mapped-Geo Table, a
\* warning in tab 2; an empty poverty-rate ranking, a warning in tab 3.
C6_EmptyViewsWarn ==
    Loaded =>
        /\ selected_states = {} => (tab1 = "warning" /\ grouped = <<>>)
        /\ df_map = <<>> => tab2 = "warning"
        /\ rate_df = <<>> => tab3 = "warning"

\* C7: the Cleaned Table and the per-state sums are what a fresh computation
\* from the current upload, mapping and selection gives, and cleaning the
\* table that cleaning has overwritten in place gives the same Cleaned Table
\* and the same sums again.
C7_PureIdempotent ==
    Loaded =>
        LET fresh == CleanedTable(Coerce(RawRows, Columns, mapping),
                                  Columns, mapping, STATE_ABBREV)
            again == CleanedTable(Coerce(df, Columns, mapping),
                                  Columns, mapping, STATE_ABBREV)
        IN  /\ df_clean = fresh
            /\ df_clean = again
            /\ selected_states # {} =>
                  /\ grouped = GroupBySum(fresh, Columns, mapping, selected_states)
                  /\ grouped = GroupBySum(again, Columns, mapping, selected_states)

\* C7 witness: a table with a numeral held as text, overwritten by its
\* number, after the mapping and the selection have both been changed.
C7_Witness ==
    /\ Loaded
    /\ df # RawRows
    /\ df_clean # <<>>
    /\ mapping # DefaultMapping(Columns)
    /\ selected_states # {}
    /\ selected_states # DefaultSelection(all_states)

\* C8 as stated: the lookup table has exactly 51 entries.
C8_FiftyOneEntries ==
    Loaded => Cardinality(DOMAIN STATE_ABBREV) = 51

\* C8 amended: the lookup table has 52 entries, the 50 states with "District
\* of Columbia" and its alias "D.C.", onto 51 two-letter codes, and no step
\* changes an entry of it.
C8_LookupTableFixed ==
    /\ [](Loaded =>
            /\ Cardinality(DOMAIN STATE_ABBREV) = 52
            /\ Cardinality({STATE_ABBREV[k] : k \in DOMAIN STATE_ABBREV}) = 51
            /\ \A k \in DOMAIN STATE_ABBREV : Len(STATE_ABBREV[k]) = 2
            /\ STATE_ABBREV["District of Columbia"] = STATE_ABBREV["D.C."])
    /\ [][Loaded /\ Loaded' => STATE_ABBREV' = STATE_ABBREV]_vars

\* C8 witness: the table in use, a row resolved through it.
C8_Witness ==
    /\ Loaded
    /\ df_map # <<>>
    /\ Cardinality(DOMAIN STATE_ABBREV) = 52

\* C9: on upload each role is pre-selected to the column named by its
\* default guess when the table has it, and to the first column otherwise.
C9_DefaultPreselection ==
    [][~Loaded /\ Loaded' =>
          \A r \in Roles :
              mapping'[r] = IF DefaultNames[r] \in Range(Columns')
                            THEN DefaultNames[r]
                            ELSE Columns'[1]]_vars

\* C9 witness: a table with none of the default names, all four roles on its
\* first column, run to the last tab.
C9_Witness ==
    /\ Loaded
    /\ \A r \in Roles : DefaultNames[r] \notin Range(Columns)
    /\ \A r \in Roles : mapping[r] = Columns[1]
    /\ Len(Columns) > 1
    /\ tab3 # "none"

\* C10: no two rows of the poverty-rate ranking have the same state and the
\* same rate, and its rows are exactly the (state, rate) pairs of the Cleaned
\* Table rows whose rate is not NaN.
C10_RankingDeduplicated ==
    tab3 = "chart" =>
        /\ \A i \in DOMAIN rate_df, j \in DOMAIN rate_df :
              rate_df[i] = rate_df[j] => i = j
        /\ Range(rate_df) =
              {RatePair(df_clean[i]) : i \in {k \in DOMAIN df_clean :
                                                 ~IsNaN(df_clean[k].Poverty_Rate)}}

\* C10 witness: one state listed twice, with two rates.
C10_Witness ==
    /\ tab3 = "chart"
    /\ Len(rate_df) = 2
    /\ rate_df[1].state = rate_df[2].state
    /\ rate_df[1].Poverty_Rate # rate_df[2].Poverty_Rate

\* C10 second case: two rows of one state and one rate, listed once.
C10_CollapsedWitness ==
    /\ tab3 = "chart"
    /\ Len(df_clean) = 2
    /\ RatePair(df_clean[1]) = RatePair(df_clean[2])
    /\ Len(rate_df) = 1

=============================================================================
